---- MODULE Spec2Model ----
(***************************************************************************)
(* GpuScatterGrid (src/src/App.tsx): per-panel normalisation of trade      *)
(* points, the effect that owns the regl context and its buffers, the      *)
(* tiled render callback, and the pointer hit-tester.                      *)
(*                                                                         *)
(* Numbers.  JavaScript numbers are modelled as exact rationals <<n, d>>   *)
(* in lowest terms with d > 0; IEEE-754 rounding and the Float32Array      *)
(* narrowing of stored positions are not modelled.                         *)
(***************************************************************************)
EXTENDS Integers, Sequences, FiniteSets, TLC

----------------------------------------------------------------------------
(* Exact rational arithmetic standing for JavaScript number arithmetic.    *)

Abs(n) == IF n < 0 THEN -n ELSE n

RECURSIVE GCD(_, _)
GCD(a, b) == IF b = 0 THEN a ELSE GCD(b, a % b)

Rat(n, d) ==
  LET s == IF d < 0 THEN -1 ELSE 1
      g == GCD(Abs(n), Abs(d))
  IN  <<(s * n) \div g, (s * d) \div g>>

Num(n) == <<n, 1>>

RAdd(a, b) == Rat(a[1] * b[2] + b[1] * a[2], a[2] * b[2])
RSub(a, b) == Rat(a[1] * b[2] - b[1] * a[2], a[2] * b[2])
RMul(a, b) == Rat(a[1] * b[1], a[2] * b[2])
RDiv(a, b) == Rat(a[1] * b[2], a[2] * b[1])
RLt(a, b)  == a[1] * b[2] < b[1] * a[2]
RLe(a, b)  == a[1] * b[2] <= b[1] * a[2]
RMax(a, b) == IF RLt(a, b) THEN b ELSE a
RMin(a, b) == IF RLt(b, a) THEN b ELSE a
RAbs(a)    == <<Abs(a[1]), a[2]>>
RFloor(a)  == Num(a[1] \div a[2])

\* `v || 1` on a number: 0 is falsy.
OrOne(v) == IF v[1] = 0 THEN Num(1) ELSE v

\* An absent optional field (size, color).
NoVal == <<>>

----------------------------------------------------------------------------
(* Coordinate normaliser: the body of the `prepared` useMemo.              *)

pointSizeRange == <<Num(2), Num(12)>>
defaultColor   == <<Rat(35, 100), Rat(52, 100), Rat(92, 100)>>

\* Mutant of padding: 10% instead of 5%.
paddingTenth == Rat(10, 100)

\* const padding = 0.05
padding == Rat(5, 100)

\* p.size ?? 1
SizeOf(p) == IF p.size = NoVal THEN Num(1) ELSE p.size

RECURSIVE ScanMin(_, _, _), ScanMax(_, _, _)
\* The range scan `if (v < min) min = v` over f(points[k]), k = i..Len.
ScanMin(vals, i, acc) ==
  IF i > Len(vals) THEN acc
  ELSE ScanMin(vals, i + 1, IF acc = NoVal \/ RLt(vals[i], acc) THEN vals[i] ELSE acc)
ScanMax(vals, i, acc) ==
  IF i > Len(vals) THEN acc
  ELSE ScanMax(vals, i + 1, IF acc = NoVal \/ RLt(acc, vals[i]) THEN vals[i] ELSE acc)

\* The raw scan bounds and the padded bounds used to place the points.
Ranges(c) ==
  LET xs == [k \in 1..Len(c.points) |-> c.points[k].x]
      ys == [k \in 1..Len(c.points) |-> c.points[k].y]
      ss == [k \in 1..Len(c.points) |-> SizeOf(c.points[k])]
      xmin0 == ScanMin(xs, 1, NoVal)
      xmax0 == ScanMax(xs, 1, NoVal)
      ymin0 == ScanMin(ys, 1, NoVal)
      ymax0 == ScanMax(ys, 1, NoVal)
      smin0 == ScanMin(ss, 1, NoVal)
      smax0 == ScanMax(ss, 1, NoVal)
      dx == OrOne(RSub(xmax0, xmin0))
      dy == OrOne(RSub(ymax0, ymin0))
      ds == OrOne(RSub(smax0, smin0))
  IN  [rawXmin |-> xmin0, rawXmax |-> xmax0, rawYmin |-> ymin0, rawYmax |-> ymax0,
       dx |-> dx, dy |-> dy, ds |-> ds, smin |-> smin0, smax |-> smax0,
       xmin |-> RSub(xmin0, RMul(dx, padding)),
       xmax |-> RAdd(xmax0, RMul(dx, padding)),
       ymin |-> RSub(ymin0, RMul(dy, padding)),
       ymax |-> RAdd(ymax0, RMul(dy, padding))]

\* Math.max(0, Math.min(1, u))
Clamp01(u) == RMax(Num(0), RMin(Num(1), u))

\* Mutant of Padded: the margin is added but the span is not shrunk to match.
PaddedWide(u) == RAdd(Rat(15, 100), RMul(u, Rat(85, 100)))

\* 0.15 + u * 0.7
Padded(u) == RAdd(Rat(15, 100), RMul(u, Rat(7, 10)))

\* Render-space coordinates (paddedUx, paddedUy) of point p under ranges r.
RenderSpace(p, r) ==
  LET ux == Clamp01(RDiv(RSub(p.x, r.xmin), RSub(r.xmax, r.xmin)))
      uy == Clamp01(RDiv(RSub(p.y, r.ymin), RSub(r.ymax, r.ymin)))
  IN  <<Padded(ux), Padded(uy)>>

\* Mutant of ClipX: the shift to the centre of clip space is forgotten.
ClipXNoShift(paddedUx) == RMul(paddedUx, Num(2))

\* pos[2i] = paddedUx * 2 - 1
ClipX(paddedUx) == RSub(RMul(paddedUx, Num(2)), Num(1))

\* pos[2i+1] = (1 - paddedUy) * 2 - 1
ClipY(paddedUy) == RSub(RMul(RSub(Num(1), paddedUy), Num(2)), Num(1))

\* size[i] = pointSizeRange[0] + us * (pointSizeRange[1] - pointSizeRange[0])
SizeMap(p, r) ==
  LET us == RDiv(RSub(SizeOf(p), r.smin), r.ds)
  IN  RAdd(pointSizeRange[1], RMul(us, RSub(pointSizeRange[2], pointSizeRange[1])))

\* p.color ?? c.color ?? defaultColor
ColorOf(p, c) ==
  IF p.color # NoVal THEN p.color
  ELSE IF c.color # NoVal THEN c.color ELSE defaultColor

\* The bounds returned on the Prepared record.
StoredXmin(r) == RAdd(r.xmin, RMul(r.dx, padding))
StoredXmax(r) == RSub(r.xmax, RMul(r.dx, padding))
StoredYmin(r) == RAdd(r.ymin, RMul(r.dy, padding))
StoredYmax(r) == RSub(r.ymax, RMul(r.dy, padding))

\* One element of `prepared`: charts.map((c) => ...).
PrepareOne(c) ==
  IF Len(c.points) = 0
  THEN [id |-> c.id, pos |-> <<>>, size |-> <<>>, color |-> <<>>, count |-> 0,
        xmin |-> Num(0), xmax |-> Num(1), ymin |-> Num(0), ymax |-> Num(1)]
  ELSE LET r == Ranges(c)
           n == Len(c.points)
       IN  [id    |-> c.id,
            pos   |-> [i \in 1..n |->
                        LET rs == RenderSpace(c.points[i], r)
                        IN  <<ClipX(rs[1]), ClipY(rs[2])>>],
            size  |-> [i \in 1..n |-> SizeMap(c.points[i], r)],
            color |-> [i \in 1..n |-> ColorOf(c.points[i], c)],
            count |-> n,
            xmin  |-> StoredXmin(r),
            xmax  |-> StoredXmax(r),
            ymin  |-> StoredYmin(r),
            ymax  |-> StoredYmax(r)]

Prepare(cs) == [i \in 1..Len(cs) |-> PrepareOne(cs[i])]

----------------------------------------------------------------------------
(* Component state.                                                        *)

VARIABLES
  mounted,        \* the component is in the tree (its last render is committed)
  charts,         \* props of the last committed render
  columns,
  cellHeight,
  cellGap,
  stableProps,    \* the parent passes pointSizeRange and defaultColor arrays
                  \* that keep their identity from one render to the next
  prepared,       \* value of the `prepared` useMemo in the last render
  memoRuns,       \* how many times the useMemo factory has run
  effectsPending, \* a commit whose passive effects are not yet flushed
  effects,        \* one record per run of the useEffect body (its closure)
  cur,            \* index in `effects` of the effect whose cleanup is owed, or 0
  reglRef,        \* reglRef.current: index of an effect's context, or 0 (null)
  dpr,            \* window.devicePixelRatio
  clientWidth,    \* CSS width of the canvas element
  styleHeight,    \* canvas.style.height in px (the element's CSS height)
  canvasSize,     \* <<canvas.width, canvas.height>>, the backing store
  lastRender,     \* what the last execution of render() did, or NoRender
  frameRenders,   \* executions of render() since the last paint: 0, 1, or 2
                  \* for two or more
  mouse,          \* element-local position of the last pointer event, or NoVal
  hit,            \* the cell lookup of the last handleMouseMove, or NoHit
  tooltip,        \* the tooltip state: NoTooltip (null) or a visible record
  markets,        \* the imported market list, each market's up and down trades
  minuteHeatmap,  \* MinuteHeatmap's memoised minuteData and timeBuckets
  minutePoints,   \* MinutePointsChart's memoised aggregatedCharts
  sizeHeatmap     \* the memoised sizeBuckets of the two size heatmaps

vars == <<mounted, charts, columns, cellHeight, cellGap, stableProps, prepared,
          memoRuns, effectsPending, effects, cur, reglRef, dpr, clientWidth,
          styleHeight, canvasSize, lastRender, frameRenders, mouse, hit, tooltip,
          markets, minuteHeatmap, minutePoints, sizeHeatmap>>

\* A component that has not rendered yet holds no memoised value.
NotRendered == [rendered |-> FALSE]

heatVars    == <<markets, minuteHeatmap, minutePoints, sizeHeatmap>>
layoutVars  == <<charts, columns, cellHeight, cellGap, stableProps>>
propVars    == <<layoutVars, prepared, memoRuns>>
canvasVars  == <<clientWidth, styleHeight, canvasSize>>
pointerVars == <<mouse, hit, tooltip>>

----------------------------------------------------------------------------
(* Grid layout.                                                            *)

marginPx == 40

\* Math.ceil(n / cols)
Rows(n, cols) == (n + cols - 1) \div cols

\* Mutant of HeightPx: the height of a single row, whatever the row count.
HeightPxOneRow(n, cols, cellH, gap) == cellH + marginPx

\* rows * cellHeight + Math.max(0, rows - 1) * cellGap + 40
HeightPx(n, cols, cellH, gap) ==
  LET rows == Rows(n, cols)
  IN  rows * cellH + (IF rows - 1 > 0 THEN rows - 1 ELSE 0) * gap + marginPx

\* (width - (cols - 1) * gap) / cols
CellW(width, cols, gap) == Rat(width - (cols - 1) * gap, cols)

\* `v || 1` on an integer
IntOrOne(v) == IF v = 0 THEN 1 ELSE v

IMax(a, b) == IF a < b THEN b ELSE a
IMin(a, b) == IF b < a THEN b ELSE a

\* Mutant of CssHeight: the element's observed height alone.
CssHeightClientOnly(clientH, required) == IntOrOne(clientH)

\* Mutant of CssHeight: the required height is added to the observed one.
CssHeightSum(clientH, required) == IntOrOne(clientH) + required

\* cssHeight = Math.max(canvas.clientHeight || 1, requiredHeight)
CssHeight(clientH, required) == IMax(IntOrOne(clientH), required)

\* The viewport (= scissor box) render() computes for panel index i (1-based
\* here, i-1 in the code), in the bottom-up convention of the GL surface.
Viewport(i, cssWidth, cssHeight, cols, cellH, gap) ==
  LET cellW == CellW(cssWidth, cols, gap)
      col == (i - 1) % cols
      row == (i - 1) \div cols
      x == RFloor(RMul(Num(col), RAdd(cellW, Num(gap))))[1]
      y == row * (cellH + gap)
      w == RFloor(cellW)[1]
      h == cellH
      viewportY == cssHeight - (y + h)
      safeViewportY == IMax(0, IMin(viewportY, cssHeight - h))
      safeY == IMax(0, IMin(y, cssHeight - h))
  IN  [x |-> x, y |-> safeViewportY, width |-> w, height |-> h,
       visible |-> (safeViewportY >= 0 /\ safeY < cssHeight)]


----------------------------------------------------------------------------
(* The render callback of one effect instance.                             *)

\* canvas.clientWidth / canvas.clientHeight: 0 once the canvas is detached.
ClientWidth  == IF mounted THEN clientWidth ELSE 0
ClientHeight == IF mounted THEN styleHeight ELSE 0

\* No execution of render() yet.
NoRender == [inst |-> 0]

\* True when all three buffers of a set are still allocated.
BufLive(b) == b.pos = 0 /\ b.size = 0 /\ b.color = 0

\* Mutant of RequiredHeight: the gaps between the rows are left out.
RequiredHeightNoGap(n, cols, cellH, gap) == Rows(n, cols) * cellH + marginPx

\* requiredHeight inside render():
\* rows * cellHeight + Math.max(0, rows - 1) * cellGap + 40
RequiredHeight(n, cols, cellH, gap) ==
  LET rows == Rows(n, cols)
  IN  rows * cellH + IMax(0, rows - 1) * gap + marginPx

\* Mutant of ShouldDraw: the point count is not looked at.
ShouldDrawAlways(vp, count) == vp.visible

\* if (safeViewportY >= 0 && safeY < cssHeight && buffers[i].count > 0)
ShouldDraw(vp, count) == vp.visible /\ count > 0

RECURSIVE DrawLoop(_, _, _, _)
\* for (let i = 0; i < buffers.length; i++) { ... drawPoints(...) }
DrawLoop(e, i, cssWidth, cssHeight) ==
  IF i > Len(e.buffers) THEN <<>>
  ELSE LET vp == Viewport(i, cssWidth, cssHeight, e.columns, e.cellHeight, e.cellGap)
           rest == DrawLoop(e, i + 1, cssWidth, cssHeight)
       IN  IF ShouldDraw(vp, e.buffers[i].count)
           THEN <<[panel |-> i, count |-> e.buffers[i].count,
                   bufLive |-> BufLive(e.buffers[i]),
                   viewport |-> [x |-> vp.x, y |-> vp.y, width |-> vp.width, height |-> vp.height],
                   scissor  |-> [x |-> vp.x, y |-> vp.y, width |-> vp.width, height |-> vp.height]]>>
                \o rest
           ELSE rest

\* The record of one execution of render() by effect instance k.
RenderResult(k) ==
  LET e == effects[k]
      cssWidth == IntOrOne(ClientWidth)
      required == RequiredHeight(Len(e.prepared), e.columns, e.cellHeight, e.cellGap)
      cssHeight == CssHeight(ClientHeight, required)
  IN  [inst |-> k,
       ctxLive |-> (e.regl = "live"),
       cssWidth |-> cssWidth,
       cssHeight |-> cssHeight,
       required |-> required,
       cellW |-> CellW(cssWidth, e.columns, e.cellGap),
       draws |-> DrawLoop(e, 1, cssWidth, cssHeight)]

\* A change of the element's box queues a notification for a connected observer.
NotifyObservers(efs, changed) ==
  [k \in DOMAIN efs |->
     IF changed /\ efs[k].observing THEN [efs[k] EXCEPT !.roPending = TRUE] ELSE efs[k]]

\* render(): size the canvas, poll, clear and draw every panel.
Render(k, efs) ==
  LET r == RenderResult(k)
  IN  /\ canvasSize' = <<IMax(1, r.cssWidth * dpr), IMax(1, r.cssHeight * dpr)>>
      /\ styleHeight' = r.cssHeight
      /\ lastRender' = r
      /\ frameRenders' = IMin(frameRenders + 1, 2)
      /\ effects' = NotifyObservers(efs, mounted /\ r.cssHeight # styleHeight)

----------------------------------------------------------------------------
(* Hit-testing: handleMouseMove.                                           *)

\* setTooltip(null)
NoTooltip == [visible |-> FALSE]

\* No cell lookup yet (or the pointer has left).
NoHit == [chartIndex |-> -1, inCell |-> FALSE]

\* isUpTrade = p.color && p.color[0] > p.color[1]
SideOf(p) == IF p.color # NoVal /\ RLt(p.color[2], p.color[1]) THEN "Up" ELSE "Down"

\* p.size || 1
SizeOrOne(p) == IF p.size = NoVal THEN Num(1) ELSE OrOne(p.size)

\* cursorTime / cursorPrice and the thresholds for a pointer at cell-local
\* (localX, localY) of a cell of size cellW x cellH over prepared panel prep.
Cursor(prep, localX, localY, cellW, cellH) ==
  LET normX == RDiv(localX, cellW)
      normY == RDiv(localY, Num(cellH))
      unpaddedX == Clamp01(RDiv(RSub(normX, Rat(15, 100)), Rat(7, 10)))
      unpaddedY == Clamp01(RDiv(RSub(normY, Rat(15, 100)), Rat(7, 10)))
  IN  [time  |-> RAdd(prep.xmin, RMul(unpaddedX, RSub(prep.xmax, prep.xmin))),
       price |-> RSub(prep.ymax, RMul(unpaddedY, RSub(prep.ymax, prep.ymin))),
       timeThreshold  |-> RMul(RSub(prep.xmax, prep.xmin), Rat(2, 100)),
       priceThreshold |-> RMul(RSub(prep.ymax, prep.ymin), Rat(2, 100))]

\* chart.points.filter(...) predicate
Nearby(point, c) ==
  /\ RLt(RAbs(RSub(point.x, c.time)), c.timeThreshold)
  /\ RLt(RAbs(RSub(point.y, c.price)), c.priceThreshold)

\* Mutant of InCell: the upper edges of the cell are not tested.
InCellNoUpper(localX, localY, cellW, cellH) ==
  RLe(Num(0), localX) /\ RLe(Num(0), localY)

\* localX >= 0 && localX <= cellW && localY >= 0 && localY <= cellH
InCell(localX, localY, cellW, cellH) ==
  /\ RLe(Num(0), localX) /\ RLe(localX, cellW)
  /\ RLe(Num(0), localY) /\ RLe(localY, Num(cellH))

\* Mutant of CellOf: row and column change places in the index.
CellOfTransposed(mx, my) ==
  LET cellW == CellW(clientWidth, columns, cellGap)
      col == RFloor(RDiv(mx, RAdd(cellW, Num(cellGap))))[1]
      row == RFloor(RDiv(my, Num(cellHeight + cellGap)))[1]
  IN  [cellW |-> cellW, col |-> col, row |-> row, chartIndex |-> col * columns + row]

\* The cell lookup of handleMouseMove for a pointer at (mx, my): cellW, col,
\* row and chartIndex = row * cols + col.
CellOf(mx, my) ==
  LET cellW == CellW(clientWidth, columns, cellGap)
      col == RFloor(RDiv(mx, RAdd(cellW, Num(cellGap))))[1]
      row == RFloor(RDiv(my, Num(cellHeight + cellGap)))[1]
  IN  [cellW |-> cellW, col |-> col, row |-> row, chartIndex |-> row * columns + col]

\* What the handler found: the index it computed and whether it went on to
\* read that panel (index in range and pointer inside the cell).
Lookup(mx, my) ==
  LET c == CellOf(mx, my)
      localX == RSub(mx, RMul(Num(c.col), RAdd(c.cellW, Num(cellGap))))
      localY == RSub(my, Num(c.row * (cellHeight + cellGap)))
  IN  [chartIndex |-> c.chartIndex,
       inCell |-> /\ c.chartIndex >= 0 /\ c.chartIndex < Len(charts)
                  /\ InCell(localX, localY, c.cellW, cellHeight)]

\* The value handleMouseMove passes to setTooltip for a pointer at (mx, my).
HitTest(mx, my) ==
  LET c == CellOf(mx, my)
      cellW == c.cellW
      cellH == cellHeight
      chartIndex == c.chartIndex
  IN  IF chartIndex >= 0 /\ chartIndex < Len(charts)
      THEN LET chart == charts[chartIndex + 1]
               prep == prepared[chartIndex + 1]
               localX == RSub(mx, RMul(Num(c.col), RAdd(cellW, Num(cellGap))))
               localY == RSub(my, Num(c.row * (cellH + cellGap)))
           IN  IF InCell(localX, localY, cellW, cellH)
               THEN LET cu == Cursor(prep, localX, localY, cellW, cellH)
                        nearbyPoints == SelectSeq(chart.points, LAMBDA pt : Nearby(pt, cu))
                    IN  IF Len(nearbyPoints) > 0
                        THEN [visible |-> TRUE, x |-> mx, y |-> my,
                              data |-> [j \in 1..Len(nearbyPoints) |->
                                         [price |-> nearbyPoints[j].y,
                                          time  |-> nearbyPoints[j].x,
                                          size  |-> SizeOrOne(nearbyPoints[j]),
                                          side  |-> SideOf(nearbyPoints[j])]]]
                        ELSE NoTooltip
               ELSE NoTooltip
      ELSE NoTooltip

----------------------------------------------------------------------------
(* The labels overlay: the crosshair marker of one of the user's trades.   *)

\* No marker: the trade is skipped.
NoMarker == <<>>

\* The marker of trade (timestamp, price) over panel c with at least one
\* point: skipped outside the panel's min/max range, otherwise its `left` and
\* `top` as fractions of the cell (paddedX / 100, paddedY / 100).
Marker(c, trade) ==
  LET r == Ranges(c)
      minTime == r.rawXmin
      maxTime == r.rawXmax
      minPrice == r.rawYmin
      maxPrice == r.rawYmax
  IN  IF \/ RLt(trade.timestamp, minTime) \/ RLt(maxTime, trade.timestamp)
         \/ RLt(trade.price, minPrice) \/ RLt(maxPrice, trade.price)
      THEN NoMarker
      ELSE LET timeRange == OrOne(RSub(maxTime, minTime))
               priceRange == OrOne(RSub(maxPrice, minPrice))
               normalizedX == Clamp01(RDiv(RSub(trade.timestamp, minTime), timeRange))
               normalizedY == Clamp01(RDiv(RSub(maxPrice, trade.price), priceRange))
           IN  <<RDiv(RAdd(Num(15), RMul(normalizedX, Num(70))), Num(100)),
                 RDiv(RAdd(Num(15), RMul(normalizedY, Num(70))), Num(100))>>

----------------------------------------------------------------------------
(* Inputs.                                                                 *)

MaxTimeSteps  == 1
MaxPoints     == 2
MaxEffects    == 2
MouseStepsX   == 8
MouseStepsY   == 6
DataSteps     == 2
MaxPanels     == 3
MaxTrades     == 2

Times  == {Num(10 * k) : k \in 0..MaxTimeSteps}
Prices == {Rat(1, 10), Rat(2, 10)}

Red   == <<Rat(9, 10), Rat(2, 10), Rat(2, 10)>>
Green == <<Rat(2, 10), Rat(8, 10), Rat(2, 10)>>

\* Points as toCharts builds them: a timestamp, a price, a size and a side colour.
Points == {[x |-> t, y |-> p, size |-> Num(1), color |-> Red] : t \in Times, p \in Prices}

PointSeqs == UNION {[1..n -> Points] : n \in 0..MaxPoints}

Panel(id, pts) == [id |-> id, points |-> pts, color |-> NoVal]

\* Chart lists for the normaliser and hit-tester: every panel over Points, alone
\* or behind an empty panel (so that the second grid cell is exercised too).
NormCharts ==
  {<<Panel("a", pts)>> : pts \in PointSeqs} \cup
  {<<Panel("e", <<>>), Panel("a", pts)>> : pts \in PointSeqs}

PointA == [x |-> Num(0),  y |-> Rat(1, 10), size |-> Num(1), color |-> Red]
PointB == [x |-> Num(10), y |-> Rat(2, 10), size |-> Num(3), color |-> Green]
\* A trade in the middle of the time and price range of PointA and PointB.
PointC == [x |-> Num(5),  y |-> Rat(15, 100), size |-> Num(2), color |-> Green]

\* Chart lists for the lifecycle: one panel, or three with an empty one (twice,
\* with different points in the same number of panels).
LifeCharts ==
  { <<Panel("a", <<PointA, PointB>>)>>,
    <<Panel("a", <<PointA>>), Panel("e", <<>>), Panel("b", <<PointB, PointA>>)>>,
    <<Panel("a", <<PointB>>), Panel("e", <<>>), Panel("b", <<PointA>>)>> }

\* Chart lists for the grid: no panel at all, one panel, three panels with an
\* empty one in the middle.
GridCharts ==
  { <<>>,
    <<Panel("a", <<PointA, PointB, PointC>>)>>,
    <<Panel("a", <<PointA, PointB, PointC>>), Panel("e", <<>>),
      Panel("b", <<PointB, PointC, PointA>>)>> }

\* The grid of the worked example: nine panels in six columns of 200 px.
ScenarioCharts == [i \in 1..9 |-> Panel("s", <<PointA, PointB, PointC>>)]

ColumnChoices == {1, 2}
HeightChoices == {10}
GapChoices    == {0, 2}
WidthChoices  == {20, 31}
DprChoices    == {1, 2}

\* Layout inputs of the lifecycle specification.
LifeGaps   == {2}
LifeWidths == {20, 31}

\* Layout inputs of the grid specification.
GridWidths == {31}

----------------------------------------------------------------------------
(* Lifecycle: React commits, the passive-effect flush, scheduled callbacks. *)

GridInit ==
  /\ mounted = FALSE
  /\ charts = <<>>
  /\ columns = 1
  /\ cellHeight = 1
  /\ cellGap = 0
  /\ stableProps = FALSE
  /\ prepared = <<>>
  /\ memoRuns = 0
  /\ effectsPending = FALSE
  /\ effects = <<>>
  /\ cur = 0
  /\ reglRef = 0
  /\ dpr = 1
  /\ clientWidth = 0
  /\ styleHeight = 0
  /\ canvasSize = <<300, 150>>
  /\ lastRender = NoRender
  /\ frameRenders = 0
  /\ mouse = NoVal
  /\ hit = NoHit
  /\ tooltip = NoTooltip

Init ==
  /\ GridInit
  /\ markets = <<>>
  /\ minuteHeatmap = NotRendered
  /\ minutePoints = NotRendered
  /\ sizeHeatmap = NotRendered

\* First render of GpuScatterGrid: the canvas is created with
\* style.height = heightPx and laid out w pixels wide on a display of pixel
\* ratio d.  stable tells whether the parent hands over pointSizeRange and
\* defaultColor arrays of stable identity (App does not: it writes
\* pointSizeRange inline and leaves defaultColor to its default).
Mount(cs, cols, ch, gap, w, d, stable) ==
  /\ ~mounted /\ ~effectsPending /\ effects = <<>>
  /\ mounted' = TRUE
  /\ charts' = cs /\ columns' = cols /\ cellHeight' = ch /\ cellGap' = gap
  /\ stableProps' = stable
  /\ prepared' = Prepare(cs)
  /\ memoRuns' = 1
  /\ effectsPending' = TRUE
  /\ dpr' = d
  /\ clientWidth' = w
  /\ styleHeight' = HeightPx(Len(cs), cols, ch, gap)
  /\ UNCHANGED <<effects, cur, reglRef, canvasSize, lastRender, frameRenders,
                 pointerVars>>
  /\ UNCHANGED heatVars

\* Mutant of Memo: the cached value is returned whatever the dependencies.
MemoStale(cs, recompute) == prepared

\* useMemo(() => charts.map(...), [charts, pointSizeRange, defaultColor]): the
\* factory's value over the charts of this render when a dependency changed,
\* the cached value otherwise.
Memo(cs, recompute) == IF recompute THEN Prepare(cs) ELSE prepared

\* A render caused by the parent.  The useMemo factory runs again when one of
\* [charts, pointSizeRange, defaultColor] changed identity; the effect is
\* scheduled when one of [prepared, columns, cellGap, cellHeight, heightPx]
\* changed.  React writes style.height only when heightPx differs from the
\* previous render's.
Commit(cs, cols, ch, gap) ==
  LET old == HeightPx(Len(charts), columns, cellHeight, cellGap)
      new == HeightPx(Len(cs), cols, ch, gap)
      recompute == cs # charts \/ ~stableProps
      depsChanged == \/ recompute
                     \/ cols # columns \/ gap # cellGap \/ ch # cellHeight
                     \/ new # old
  IN  /\ mounted /\ ~effectsPending
      /\ depsChanged => Len(effects) < MaxEffects
      /\ charts' = cs /\ columns' = cols /\ cellHeight' = ch /\ cellGap' = gap
      /\ prepared' = Memo(cs, recompute)
      /\ memoRuns' = IF recompute THEN memoRuns + 1 ELSE memoRuns
      /\ effectsPending' = depsChanged
      /\ styleHeight' = IF new # old THEN new ELSE styleHeight
      /\ effects' = NotifyObservers(effects, styleHeight' # styleHeight)
      /\ UNCHANGED <<mounted, stableProps, cur, reglRef, dpr, clientWidth, canvasSize,
                     lastRender, frameRenders, pointerVars>>
  /\ UNCHANGED heatVars

\* The component leaves the tree: the canvas is detached, the cleanup is owed.
Unmount ==
  /\ mounted /\ ~effectsPending
  /\ mounted' = FALSE
  /\ effectsPending' = TRUE
  /\ mouse' = NoVal
  /\ hit' = NoHit
  /\ tooltip' = NoTooltip
  /\ UNCHANGED <<propVars, effects, cur, reglRef, dpr, canvasVars, lastRender,
                 frameRenders>>
  /\ UNCHANGED heatVars

\* Mutant of Destroy: the buffer is released a second time.
DestroyTwice(n) == n + 2

\* buffer.destroy(): one more release of that buffer.
Destroy(n) == n + 1

\* regl.destroy() releases the resources of the context that are still
\* allocated; a buffer already destroyed is no longer in its table.
ReglDestroy(n) == IF n = 0 THEN 1 ELSE n

\* Mutant of Cleanup: the observer is disconnected, nothing is destroyed.
CleanupObserverOnly(e) == [e EXCEPT !.observing = FALSE, !.roPending = FALSE]

\* The function returned by the effect: ro.disconnect(), destroy each buffer
\* of this instance, regl.destroy().
Cleanup(e) ==
  [e EXCEPT !.observing = FALSE,
            !.roPending = FALSE,
            !.buffers = [i \in 1..Len(e.buffers) |->
                           [e.buffers[i] EXCEPT !.pos = ReglDestroy(Destroy(@)),
                                                !.size = ReglDestroy(Destroy(@)),
                                                !.color = ReglDestroy(Destroy(@))]],
            !.regl = "destroyed"]

\* The effect body: create the context and one buffer set per prepared panel,
\* observe the canvas, schedule the first render.  gen is the identity of the
\* `prepared` value the closure holds, heightPx the component body's height;
\* built tells that the body ran to its end.
Setup ==
  [prepared |-> prepared, gen |-> memoRuns,
   columns |-> columns, cellHeight |-> cellHeight, cellGap |-> cellGap,
   heightPx |-> HeightPx(Len(charts), columns, cellHeight, cellGap),
   regl |-> "live",
   buffers |-> [i \in 1..Len(prepared) |->
                  [pos |-> 0, size |-> 0, color |-> 0, count |-> prepared[i].count]],
   observing |-> TRUE,
   roPending |-> TRUE,
   rafPending |-> TRUE,
   built |-> TRUE]

\* React flushes the passive effects of the last commit: the previous effect's
\* cleanup first, then (unless unmounting) the new effect body.
FlushEffects ==
  /\ effectsPending
  /\ effectsPending' = FALSE
  /\ LET cleaned == IF cur = 0 THEN effects
                    ELSE [effects EXCEPT ![cur] = Cleanup(@)]
     IN  IF mounted
         THEN /\ effects' = Append(cleaned, Setup)
              /\ cur' = Len(effects) + 1
              /\ reglRef' = Len(effects) + 1
         ELSE /\ effects' = cleaned
              /\ cur' = 0
              /\ reglRef' = 0
  /\ UNCHANGED <<mounted, propVars, dpr, canvasVars, lastRender, frameRenders,
                 pointerVars>>
  /\ UNCHANGED heatVars

\* What an effect body leaves behind when it throws after the context and the
\* buffer sets of the first j panels were created: nothing observed, nothing
\* scheduled.
Partial(j) ==
  [Setup EXCEPT !.buffers = SubSeq(@, 1, j),
                !.observing = FALSE,
                !.roPending = FALSE,
                !.rafPending = FALSE,
                !.built = FALSE]

\* The flush in which the effect body throws: createREGL fails (j = -1), or
\* regl.buffer or the draw command fails after j buffer sets exist.  The
\* previous effect's cleanup has run; the body returns no cleanup; without an
\* error boundary React unmounts the tree.
ConstructionFails(j) ==
  /\ effectsPending /\ mounted
  /\ j \in -1..Len(prepared)
  /\ effectsPending' = FALSE
  /\ mounted' = FALSE
  /\ cur' = 0
  /\ LET cleaned == IF cur = 0 THEN effects
                    ELSE [effects EXCEPT ![cur] = Cleanup(@)]
     IN  IF j = -1
         THEN effects' = cleaned /\ reglRef' = 0
         ELSE effects' = Append(cleaned, Partial(j)) /\ reglRef' = Len(effects) + 1
  /\ mouse' = NoVal
  /\ hit' = NoHit
  /\ tooltip' = NoTooltip
  /\ UNCHANGED <<propVars, dpr, canvasVars, lastRender, frameRenders>>
  /\ UNCHANGED heatVars

\* The callback passed to requestAnimationFrame runs.
RafFire(k) ==
  /\ k \in DOMAIN effects
  /\ effects[k].rafPending
  /\ Render(k, [effects EXCEPT ![k].rafPending = FALSE])
  /\ UNCHANGED <<mounted, propVars, effectsPending, cur, reglRef, dpr, clientWidth,
                 pointerVars>>
  /\ UNCHANGED heatVars

\* The ResizeObserver delivers a notification to a connected observer: the
\* callback calls render() directly.
RoFire(k) ==
  /\ k \in DOMAIN effects
  /\ effects[k].observing /\ effects[k].roPending
  /\ Render(k, [effects EXCEPT ![k].roPending = FALSE])
  /\ UNCHANGED <<mounted, propVars, effectsPending, cur, reglRef, dpr, clientWidth,
                 pointerVars>>
  /\ UNCHANGED heatVars

\* The browser paints: the frame in which the callbacks above ran is over.
Paint ==
  /\ frameRenders > 0
  /\ frameRenders' = 0
  /\ UNCHANGED <<mounted, propVars, effectsPending, effects, cur, reglRef, dpr,
                 canvasVars, lastRender, pointerVars>>
  /\ UNCHANGED heatVars

\* The page lays the canvas out at another width.
Resize(w) ==
  /\ mounted
  /\ w # clientWidth
  /\ clientWidth' = w
  /\ effects' = NotifyObservers(effects, TRUE)
  /\ UNCHANGED <<mounted, propVars, effectsPending, cur, reglRef, dpr, styleHeight,
                 canvasSize, lastRender, frameRenders, pointerVars>>
  /\ UNCHANGED heatVars

\* setTooltip(new) and the render of GpuScatterGrid it causes.  A new tooltip
\* object, or null replacing one, is a state change (null over null is not).
\* The props are those of the last render; a defaultColor left to its default
\* is a new array in every render, so the useMemo factory runs again and the
\* effect, which depends on `prepared`, is scheduled.
SetTooltip(new) ==
  /\ tooltip' = new
  /\ IF (new.visible \/ tooltip.visible) /\ ~stableProps
     THEN /\ ~effectsPending
          /\ Len(effects) < MaxEffects
          /\ prepared' = Memo(charts, TRUE)
          /\ memoRuns' = memoRuns + 1
          /\ effectsPending' = TRUE
     ELSE UNCHANGED <<prepared, memoRuns, effectsPending>>

\* onMouseMove at element-local (mx, my).
MouseMove(mx, my) ==
  /\ mounted
  /\ mouse' = <<mx, my>>
  /\ hit' = Lookup(mx, my)
  /\ SetTooltip(HitTest(mx, my))
  /\ UNCHANGED <<mounted, layoutVars, effects, cur, reglRef, dpr, canvasVars,
                 lastRender, frameRenders>>
  /\ UNCHANGED heatVars

\* onMouseLeave
MouseLeave ==
  /\ mounted
  /\ mouse # NoVal
  /\ mouse' = NoVal
  /\ hit' = NoHit
  /\ SetTooltip(NoTooltip)
  /\ UNCHANGED <<mounted, layoutVars, effects, cur, reglRef, dpr, canvasVars,
                 lastRender, frameRenders>>
  /\ UNCHANGED heatVars

----------------------------------------------------------------------------
(* Where a drawn point lands, in element-local CSS pixels.                 *)

\* The draw call of the last render for panel i, as a set (empty if none).
DrawsOf(i) ==
  {lastRender.draws[j] : j \in {n \in 1..Len(lastRender.draws) : lastRender.draws[n].panel = i}}

\* The last render is by the live current effect and the element has kept the
\* size and the panels it was rendered with.
RenderCurrent ==
  /\ mounted /\ ~effectsPending
  /\ cur # 0
  /\ lastRender.inst = cur
  /\ lastRender.cssWidth = clientWidth
  /\ lastRender.cssHeight = styleHeight

\* GL maps clip [-1, 1] onto the viewport, y growing upwards from the bottom
\* of the backing store; the backing store is stretched over the CSS box.
PixelOf(d, clip) ==
  LET bx == RAdd(Num(d.viewport.x),
                 RMul(RDiv(RAdd(clip[1], Num(1)), Num(2)), Num(d.viewport.width)))
      byUp == RAdd(Num(d.viewport.y),
                   RMul(RDiv(RAdd(clip[2], Num(1)), Num(2)), Num(d.viewport.height)))
      byDown == RSub(Num(canvasSize[2]), byUp)
  IN  <<RMul(bx, Rat(clientWidth, canvasSize[1])),
        RMul(byDown, Rat(styleHeight, canvasSize[2]))>>

\* The pointer moves onto the pixel at which point k of panel i was drawn.
HoverPoint(i, k) ==
  /\ RenderCurrent
  /\ i \in DOMAIN prepared
  /\ k \in 1..prepared[i].count
  /\ \E d \in DrawsOf(i) :
       LET px == PixelOf(d, prepared[i].pos[k])
       IN  MouseMove(px[1], px[2])

----------------------------------------------------------------------------
(* The market list and the charts derived from it (toCharts), the          *)
(* per-minute aggregations and the heatmap bucketings.  A trade is a       *)
(* record [timestamp, price, size]; timestamps are whole seconds.          *)

\* toCharts: a market's up trades then its down trades as one panel's points.
TradePoint(t, color) == [x |-> Num(t.timestamp), y |-> t.price, size |-> t.size, color |-> color]

ToChart(m) ==
  [id |-> m.id,
   points |-> [k \in 1..Len(m.up) |-> TradePoint(m.up[k], Red)] \o
              [k \in 1..Len(m.down) |-> TradePoint(m.down[k], Green)],
   color |-> defaultColor]

toCharts(ms) == [k \in 1..Len(ms) |-> ToChart(ms[k])]

\* Math.floor(trade.timestamp / 60) * 60
MinuteOf(t) == (t.timestamp \div 60) * 60

\* 0 / 0
NaN == <<0, 0>>

\* a / b on numbers, for a total b of non-negative sizes.
Quot(a, b) == IF b[1] = 0 THEN NaN ELSE RDiv(a, b)

\* The position of a minute in a Map kept as the list of its values in
\* insertion order, or 0.
IndexOf(map, minute) ==
  IF \E k \in DOMAIN map : map[k].minute = minute
  THEN CHOOSE k \in DOMAIN map : map[k].minute = minute
  ELSE 0

RECURSIVE SumValue(_, _)
\* trades.reduce((sum, t) => sum + (t.price * t.size), 0)
SumValue(trades, i) ==
  IF i > Len(trades) THEN Num(0)
  ELSE RAdd(RMul(trades[i].price, trades[i].size), SumValue(trades, i + 1))

\* Mutant of TradesInMinute: no filter at all.
TradesInMinuteAll(trades, minute) == trades

\* trades.filter(t => Math.floor(t.timestamp / 60) * 60 === minute)
TradesInMinute(trades, minute) == SelectSeq(trades, LAMBDA t : MinuteOf(t) = minute)

\* [...m.up.trades, ...m.down.trades] over all markets.
RECURSIVE AllTrades(_, _)
AllTrades(ms, i) ==
  IF i > Len(ms) THEN <<>>
  ELSE ms[i].up \o ms[i].down \o AllTrades(ms, i + 1)

RECURSIVE CountAll(_, _, _)
\* The first pass of aggregateAllTradesByMinute: one entry per minute in
\* insertion order, counting the trades and adding up their sizes.
CountAll(trades, i, map) ==
  IF i > Len(trades) THEN map
  ELSE LET minute == MinuteOf(trades[i])
           map1 == IF IndexOf(map, minute) = 0
                   THEN Append(map, [minute |-> minute, tradesCount |-> 0,
                                     totalSize |-> Num(0), avgPrice |-> Num(0)])
                   ELSE map
           k == IndexOf(map1, minute)
       IN  CountAll(trades, i + 1,
                    [map1 EXCEPT ![k].tradesCount = @ + 1,
                                 ![k].totalSize = RAdd(@, trades[i].size)])

RECURSIVE SortByMinute(_)
\* sort((a, b) => a.minute - b.minute); the minutes of the entries differ.
SortByMinute(map) ==
  IF map = <<>> THEN <<>>
  ELSE LET k == CHOOSE k \in DOMAIN map : \A j \in DOMAIN map : map[k].minute <= map[j].minute
       IN  <<map[k]>> \o SortByMinute(SubSeq(map, 1, k - 1) \o SubSeq(map, k + 1, Len(map)))

\* aggregateAllTradesByMinute: the second pass filters the full trade list
\* again for every minute of the map.
aggregateAllTradesByMinute(ms) ==
  LET all == AllTrades(ms, 1)
      counted == CountAll(all, 1, <<>>)
  IN  SortByMinute(
        [k \in DOMAIN counted |->
           [counted[k] EXCEPT
              !.avgPrice = Quot(SumValue(TradesInMinute(all, counted[k].minute), 1),
                                counted[k].totalSize)]])

RECURSIVE CountSide(_, _, _, _)
\* The forEach over market.up.trades (up = TRUE) or market.down.trades.
CountSide(trades, i, map, up) ==
  IF i > Len(trades) THEN map
  ELSE LET minute == MinuteOf(trades[i])
           map1 == IF IndexOf(map, minute) = 0
                   THEN Append(map, [minute |-> minute, upTrades |-> 0, downTrades |-> 0,
                                     upTotalSize |-> Num(0), downTotalSize |-> Num(0),
                                     upAvgPrice |-> Num(0), downAvgPrice |-> Num(0)])
                   ELSE map
           k == IndexOf(map1, minute)
       IN  CountSide(trades, i + 1,
                     IF up
                     THEN [map1 EXCEPT ![k].upTrades = @ + 1,
                                       ![k].upTotalSize = RAdd(@, trades[i].size)]
                     ELSE [map1 EXCEPT ![k].downTrades = @ + 1,
                                       ![k].downTotalSize = RAdd(@, trades[i].size)],
                     up)

\* The minute map of one market after the average prices are filled in.
MinuteMap(m) ==
  LET counted == CountSide(m.down, 1, CountSide(m.up, 1, <<>>, TRUE), FALSE)
  IN  [k \in DOMAIN counted |->
         LET upIn == TradesInMinute(m.up, counted[k].minute)
             downIn == TradesInMinute(m.down, counted[k].minute)
         IN  [counted[k] EXCEPT
                !.upAvgPrice = IF Len(upIn) > 0
                               THEN Quot(SumValue(upIn, 1), counted[k].upTotalSize)
                               ELSE @,
                !.downAvgPrice = IF Len(downIn) > 0
                                 THEN Quot(SumValue(downIn, 1), counted[k].downTotalSize)
                                 ELSE @]]

RECURSIVE MinutePoints(_, _)
\* One red point per minute with up trades, one green per minute with down
\* trades, in the map's order.
MinutePoints(map, i) ==
  IF i > Len(map) THEN <<>>
  ELSE (IF map[i].upTrades > 0
        THEN <<[x |-> Num(map[i].minute), y |-> map[i].upAvgPrice,
                size |-> map[i].upTotalSize, color |-> Red]>>
        ELSE <<>>) \o
       (IF map[i].downTrades > 0
        THEN <<[x |-> Num(map[i].minute), y |-> map[i].downAvgPrice,
                size |-> map[i].downTotalSize, color |-> Green]>>
        ELSE <<>>) \o
       MinutePoints(map, i + 1)

\* aggregateTradesByMinute
aggregateTradesByMinute(ms) ==
  [k \in 1..Len(ms) |->
     [id |-> ms[k].id, points |-> MinutePoints(MinuteMap(ms[k]), 1),
      color |-> <<Rat(5, 10), Rat(5, 10), Rat(8, 10)>>]]

\* const bucketCount = 30
bucketCount == 30

RECURSIVE SumTradesCount(_, _), SumTotalSize(_, _), SumAvgPrice(_, _)
\* list.reduce((sum, d) => sum + d.tradesCount, 0), and the same for
\* totalSize and avgPrice.
SumTradesCount(list, i) ==
  IF i > Len(list) THEN 0 ELSE list[i].tradesCount + SumTradesCount(list, i + 1)
SumTotalSize(list, i) ==
  IF i > Len(list) THEN Num(0) ELSE RAdd(list[i].totalSize, SumTotalSize(list, i + 1))
SumAvgPrice(list, i) ==
  IF i > Len(list) THEN Num(0) ELSE RAdd(list[i].avgPrice, SumAvgPrice(list, i + 1))

\* minuteData.filter(d => d.minute >= bucketStart && d.minute < bucketEnd)
BucketMinutes(minuteData, bucketStart, bucketEnd) ==
  SelectSeq(minuteData, LAMBDA d : RLe(bucketStart, Num(d.minute)) /\ RLt(Num(d.minute), bucketEnd))

\* timeBuckets of MinuteHeatmap: 30 equal slices of [minTime, maxTime], both 0
\* for an empty minuteData (the label is left out).
TimeBuckets(minuteData) ==
  LET minutes == {minuteData[k].minute : k \in DOMAIN minuteData}
      minTime == IF minuteData = <<>> THEN 0
                 ELSE CHOOSE m \in minutes : \A n \in minutes : m <= n
      maxTime == IF minuteData = <<>> THEN 0
                 ELSE CHOOSE m \in minutes : \A n \in minutes : m >= n
      timeRange == maxTime - minTime
      bucketSize == Rat(timeRange, bucketCount)
  IN  [b \in 1..bucketCount |->
         LET bucketStart == RAdd(Num(minTime), RMul(Num(b - 1), bucketSize))
             bucketEnd == RAdd(bucketStart, bucketSize)
             bucketMinutes == BucketMinutes(minuteData, bucketStart, bucketEnd)
         IN  [tradesCount |-> SumTradesCount(bucketMinutes, 1),
              totalSize |-> SumTotalSize(bucketMinutes, 1),
              avgPrice |-> IF Len(bucketMinutes) > 0
                           THEN RDiv(SumAvgPrice(bucketMinutes, 1),
                                     Num(Len(bucketMinutes)))
                           ELSE Num(0)]]

RECURSIVE PointsOf(_, _)
\* charts.forEach(chart => chart.points.forEach(...)): every point in order.
PointsOf(cs, i) ==
  IF i > Len(cs) THEN <<>> ELSE cs[i].points \o PointsOf(cs, i + 1)

\* point.size && point.size > 0
HasSize(p) == p.size # NoVal /\ RLt(Num(0), p.size)

\* Math.abs(price - level) < 0.001
AtPrice(p, level) == RLt(RAbs(RSub(p.y, level)), Rat(1, 1000))

\* Math.ceil
RCeil(a) == -((-a[1]) \div a[2])

\* Math.max(...sizes) of a non-empty list.
MaxOf(sizes) ==
  LET k == CHOOSE k \in DOMAIN sizes : \A j \in DOMAIN sizes : RLe(sizes[j], sizes[k])
  IN  sizes[k]

\* const bucketSize = 5
sizeBucketSize == 5

\* Math.ceil(maxSize / bucketSize)
NumBuckets(maxSize) == RCeil(RDiv(maxSize, Num(sizeBucketSize)))

\* sizes.filter(size => size >= bucketMinSize && size < bucketMaxSize).length
CountIn(sizes, i) ==
  Len(SelectSeq(sizes, LAMBDA s : RLe(Num(i * sizeBucketSize), s) /\ RLt(s, Num((i + 1) * sizeBucketSize))))

RECURSIVE BucketsFrom(_, _, _, _)
\* The bucket loop of both size heatmaps: buckets without trades are left out;
\* SizeHeatmap has no price breakdown (at090 = all, at095 = none).
BucketsFrom(at090, at095, i, numBuckets) ==
  IF i >= numBuckets THEN <<>>
  ELSE LET c090 == CountIn(at090, i)
           c095 == CountIn(at095, i)
       IN  (IF c090 + c095 > 0
            THEN <<[count |-> c090 + c095,
                    minSize |-> i * sizeBucketSize,
                    maxSize |-> (i + 1) * sizeBucketSize,
                    at090 |-> c090, at095 |-> c095]>>
            ELSE <<>>) \o BucketsFrom(at090, at095, i + 1, numBuckets)

SizesOf(pts) == [k \in DOMAIN pts |-> pts[k].size]

\* sizeBuckets of SizeHeatmap.
SizeBuckets(cs) ==
  LET allSizes == SizesOf(SelectSeq(PointsOf(cs, 1), HasSize))
  IN  IF allSizes = <<>> THEN <<>>
      ELSE BucketsFrom(allSizes, <<>>, 0, NumBuckets(MaxOf(allSizes)))

\* sizeBuckets of PriceFilteredSizeHeatmap: trades priced 0.90 or 0.95 only.
FilteredSizeBuckets(cs) ==
  LET sized == SelectSeq(PointsOf(cs, 1), HasSize)
      sizesAt090 == SizesOf(SelectSeq(sized, LAMBDA p : AtPrice(p, Rat(90, 100))))
      sizesAt095 == SizesOf(SelectSeq(sized, LAMBDA p : ~AtPrice(p, Rat(90, 100)) /\ AtPrice(p, Rat(95, 100))))
      allFilteredSizes == sizesAt090 \o sizesAt095
  IN  IF allFilteredSizes = <<>> THEN <<>>
      ELSE BucketsFrom(sizesAt090, sizesAt095, 0, NumBuckets(MaxOf(allFilteredSizes)))

gridVars == <<mounted, propVars, effectsPending, effects, cur, reglRef, dpr,
              canvasVars, lastRender, frameRenders, pointerVars>>

\* MinuteHeatmap renders: its useMemos run over the imported markets.
RenderMinuteHeatmap ==
  /\ ~minuteHeatmap.rendered
  /\ minuteHeatmap' =
       LET minuteData == aggregateAllTradesByMinute(markets)
       IN  [rendered |-> TRUE, minuteData |-> minuteData,
            timeBuckets |-> TimeBuckets(minuteData)]
  /\ UNCHANGED <<gridVars, markets, minutePoints, sizeHeatmap>>

\* MinutePointsChart renders.
RenderMinutePoints ==
  /\ ~minutePoints.rendered
  /\ minutePoints' = [rendered |-> TRUE, aggregatedCharts |-> aggregateTradesByMinute(markets)]
  /\ UNCHANGED <<gridVars, markets, minuteHeatmap, sizeHeatmap>>

\* App renders SizeHeatmap and PriceFilteredSizeHeatmap over toCharts(markets).
RenderSizeHeatmaps ==
  /\ ~sizeHeatmap.rendered
  /\ sizeHeatmap' = [rendered |-> TRUE,
                     sizeBuckets |-> SizeBuckets(toCharts(markets)),
                     filteredBuckets |-> FilteredSizeBuckets(toCharts(markets))]
  /\ UNCHANGED <<gridVars, markets, minuteHeatmap, minutePoints>>

\* Trades: three timestamps in three different minutes, two price and size
\* pairs, on either side of the market.
TradeTimes == {30, 60, 150}
TradeKinds == {<<Rat(90, 100), Num(5)>>, <<Rat(20, 100), Num(3)>>}
Trades ==
  {[timestamp |-> t, price |-> k[1], size |-> k[2], side |-> s] :
     t \in TradeTimes, k \in TradeKinds, s \in {"up", "down"}}

TradeSeqs == UNION {[1..n -> Trades] : n \in 0..MaxTrades}

MarketOf(id, ts) ==
  [id |-> id,
   up |-> SelectSeq(ts, LAMBDA t : t.side = "up"),
   down |-> SelectSeq(ts, LAMBDA t : t.side = "down")]

OtherMarket ==
  MarketOf("m2", <<[timestamp |-> 61, price |-> Rat(95, 100), size |-> Num(10), side |-> "up"]>>)

\* Market lists: one market, alone or before a second one.
MarketLists ==
  {<<MarketOf("m1", ts)>> : ts \in TradeSeqs} \cup
  {<<MarketOf("m1", ts), OtherMarket>> : ts \in TradeSeqs}

----------------------------------------------------------------------------
(* Specifications.                                                         *)

\* The component's life under a parent that hands over array props of stable
\* identity: one mount, any commits and resizes, one unmount, with the
\* scheduled callbacks and the paints interleaved.
Next ==
  \/ \E cs \in LifeCharts, cols \in ColumnChoices, ch \in HeightChoices,
        gap \in LifeGaps, w \in LifeWidths :
       Mount(cs, cols, ch, gap, w, 1, TRUE)
  \/ \E cs \in LifeCharts, cols \in ColumnChoices, ch \in HeightChoices,
        gap \in LifeGaps : Commit(cs, cols, ch, gap)
  \/ Unmount
  \/ FlushEffects
  \/ \E k \in 1..MaxEffects : RafFire(k)
  \/ \E k \in 1..MaxEffects : RoFire(k)
  \/ Paint
  \/ \E w \in LifeWidths : Resize(w)

Spec == Init /\ [][Next]_vars

\* The normaliser and the hit-tester over every panel of NormCharts, used as
\* App uses the component: mount, first render, then the pointer visits the
\* drawn points.
InitNorm == Init

NextNorm ==
  \/ \E cs \in NormCharts, cols \in ColumnChoices, ch \in HeightChoices,
        gap \in GapChoices, w \in WidthChoices : Mount(cs, cols, ch, gap, w, 1, FALSE)
  \/ FlushEffects
  \/ \E k \in 1..MaxEffects : RafFire(k)
  \/ \E k \in 1..MaxEffects : RoFire(k)
  \/ Paint
  \/ \E i \in 1..2, k \in 1..MaxPoints : HoverPoint(i, k)
  \/ MouseLeave

SpecNorm == InitNorm /\ [][NextNorm]_vars

\* The grid and the pointer: one mount, over the small layouts below or as App
\* mounts the component (six columns of 200 px, cells 280 px high, gap 20, no
\* defaultColor prop), the renders, and the pointer moving over a lattice of
\* positions of the element.  Frames are delimited in Spec, not here.
InitGrid == Init

NextGrid ==
  \/ \E cs \in GridCharts, cols \in ColumnChoices, ch \in HeightChoices,
        gap \in GapChoices, w \in GridWidths, d \in DprChoices :
       Mount(cs, cols, ch, gap, w, d, TRUE)
  \/ Mount(ScenarioCharts, 6, 280, 20, 1300, 1, FALSE)
  \/ FlushEffects
  \/ \E k \in 1..MaxEffects : RafFire(k)
  \/ \E k \in 1..MaxEffects : RoFire(k)
  \/ \E i \in 0..MouseStepsX, j \in 0..MouseStepsY :
       MouseMove(Rat(i * clientWidth, MouseStepsX), Rat(j * styleHeight, MouseStepsY))
  \/ MouseLeave

SpecGrid == InitGrid /\ [][NextGrid]_vars

\* Data changes and the pointer: one mount, parents of both kinds replacing
\* the charts and the layout, the effect flushes, and the pointer moving over
\* a coarse lattice.  The handlers read only what the last render committed, so the
\* scheduled renders are left to the specifications above.
InitData == Init

NextData ==
  \/ \E cs \in LifeCharts, cols \in ColumnChoices, ch \in HeightChoices,
        gap \in LifeGaps, w \in GridWidths, stable \in BOOLEAN :
       Mount(cs, cols, ch, gap, w, 1, stable)
  \/ \E cs \in LifeCharts, cols \in ColumnChoices, ch \in HeightChoices,
        gap \in LifeGaps : Commit(cs, cols, ch, gap)
  \/ FlushEffects
  \/ \E i \in 0..DataSteps, j \in 0..DataSteps :
       MouseMove(Rat(i * clientWidth, DataSteps), Rat(j * styleHeight, DataSteps))
  \/ MouseLeave

SpecData == InitData /\ [][NextData]_vars

\* Construction that can fail: the component's life with an effect body that
\* may throw at any point of the creation of the context and the buffers.
InitFail == Init

NextFail ==
  \/ \E cs \in LifeCharts, cols \in ColumnChoices, ch \in HeightChoices,
        gap \in LifeGaps, w \in GridWidths :
       Mount(cs, cols, ch, gap, w, 1, TRUE)
  \/ \E cs \in LifeCharts, cols \in ColumnChoices, ch \in HeightChoices,
        gap \in LifeGaps : Commit(cs, cols, ch, gap)
  \/ Unmount
  \/ FlushEffects
  \/ \E j \in -1..MaxPanels : ConstructionFails(j)
  \/ \E k \in 1..MaxEffects : RafFire(k)
  \/ \E k \in 1..MaxEffects : RoFire(k)

SpecFail == InitFail /\ [][NextFail]_vars

\* The aggregating components over every market list of the bounded set.
InitAgg ==
  /\ GridInit
  /\ markets \in MarketLists
  /\ minuteHeatmap = NotRendered
  /\ minutePoints = NotRendered
  /\ sizeHeatmap = NotRendered

NextAgg ==
  \/ RenderMinuteHeatmap
  \/ RenderMinutePoints
  \/ RenderSizeHeatmaps

SpecAgg == InitAgg /\ [][NextAgg]_vars

----------------------------------------------------------------------------
(* Properties of the normaliser and the hit-tester (under SpecNorm).       *)

\* Panels of the committed render that have at least one point.
NonEmptyPanels == {i \in DOMAIN prepared : prepared[i].count > 0}

\* The pointer rests on the pixel at which point k of panel i was drawn.
PointerOn(i, k) ==
  /\ RenderCurrent
  /\ mouse # NoVal
  /\ \E d \in DrawsOf(i) : mouse = PixelOf(d, prepared[i].pos[k])

\* The tooltip lists point p.
TooltipHas(p) ==
  /\ tooltip.visible
  /\ \E j \in DOMAIN tooltip.data :
       tooltip.data[j].time = p.x /\ tooltip.data[j].price = p.y

\* C1: forward-then-inverse round trip.  Whenever the pointer is on the pixel
\* at which a point of a non-empty panel was drawn, the tooltip contains that
\* point.
C1_RoundTrip ==
  \A i \in NonEmptyPanels : \A k \in 1..prepared[i].count :
    PointerOn(i, k) => TooltipHas(charts[i].points[k])

\* C2: the bounds stored on the Prepared record of a non-empty panel are the
\* 5%-padded bounds with which its points were placed.
C2_StoredBoundsArePadded ==
  \A i \in NonEmptyPanels :
    LET r == Ranges(charts[i])
    IN  /\ prepared[i].xmin = r.xmin /\ prepared[i].xmax = r.xmax
        /\ prepared[i].ymin = r.ymin /\ prepared[i].ymax = r.ymax

\* C3: every Prepared record, of an empty, single-point, degenerate or general
\* panel, stores bounds with xmax > xmin and ymax > ymin.
C3_BoundsNonDegenerate ==
  \A i \in DOMAIN prepared :
    /\ RLt(prepared[i].xmin, prepared[i].xmax)
    /\ RLt(prepared[i].ymin, prepared[i].ymax)

\* C4: of two points of one panel with different prices, the one with the
\* higher price has the larger clip-space Y (clip +1 is the top of the cell).
C4_HigherPriceHigherClipY ==
  \A i \in NonEmptyPanels : \A j, k \in 1..prepared[i].count :
    RLt(charts[i].points[j].y, charts[i].points[k].y)
      => RLt(prepared[i].pos[j][2], prepared[i].pos[k][2])

InRange(v, lo, hi) == RLe(lo, v) /\ RLe(v, hi)

\* C5: for a non-empty panel every point's render-space coordinate lies in
\* [0.15, 0.85] on both axes, every stored clip-space coordinate lies in
\* [-1, 1], and the stored position is the render-space one taken to clip space.
C5_RenderAndClipRange ==
  \A i \in NonEmptyPanels : \A k \in 1..prepared[i].count :
    LET rs == RenderSpace(charts[i].points[k], Ranges(charts[i]))
        pos == prepared[i].pos[k]
    IN  /\ InRange(rs[1], Rat(15, 100), Rat(85, 100))
        /\ InRange(rs[2], Rat(15, 100), Rat(85, 100))
        /\ InRange(pos[1], Num(-1), Num(1))
        /\ InRange(pos[2], Num(-1), Num(1))
        /\ pos[1] = RSub(RMul(rs[1], Num(2)), Num(1))

\* A mounted panel with two points at opposite corners of its range.
C5_Witness ==
  \E i \in NonEmptyPanels : \E j, k \in 1..prepared[i].count :
    /\ RLt(charts[i].points[j].x, charts[i].points[k].x)
    /\ RLt(charts[i].points[j].y, charts[i].points[k].y)
    /\ prepared[i].pos[j] # prepared[i].pos[k]

\* Panel A of the scenario: the points (t=0, p=0.10) and (t=10, p=0.20).
IsScenarioA(c) ==
  /\ Len(c.points) = 2
  /\ c.points[1].x = Num(0)  /\ c.points[1].y = Rat(1, 10)
  /\ c.points[2].x = Num(10) /\ c.points[2].y = Rat(2, 10)

ScenarioPanels == {i \in DOMAIN prepared : IsScenarioA(charts[i])}

Within(a, b) == RLe(RAbs(RSub(a, b)), Rat(1, 10000))

ScenarioBounds(r) ==
  /\ r.xmin = Rat(-1, 2)    /\ r.xmax = Rat(21, 2)
  /\ r.ymin = Rat(95, 1000) /\ r.ymax = Rat(205, 1000)

DegeneratePanels ==
  {i \in NonEmptyPanels :
     \A j, k \in 1..prepared[i].count :
       /\ charts[i].points[j].x = charts[i].points[k].x
       /\ charts[i].points[j].y = charts[i].points[k].y}

\* C7: in a panel whose points all share the same time and the same price,
\* every point is placed at render-space (0.5, 0.5), clip-space (0, 0), and
\* neither normalising division has a zero divisor.
C7_DegenerateCentred ==
  \A i \in DegeneratePanels : \A k \in 1..prepared[i].count :
    LET r == Ranges(charts[i])
    IN  /\ RSub(r.xmax, r.xmin) # Num(0)
        /\ RSub(r.ymax, r.ymin) # Num(0)
        /\ RenderSpace(charts[i].points[k], r) = <<Rat(1, 2), Rat(1, 2)>>
        /\ prepared[i].pos[k] = <<Num(0), Num(0)>>

\* A degenerate panel with two coinciding points is mounted.
C7_Witness ==
  \E i \in DegeneratePanels : mounted /\ prepared[i].count = 2

----------------------------------------------------------------------------
(* Properties of the effect's resources (under Spec).                      *)

\* Effect instances holding an allocated buffer for panel index i.
LiveSets(i) ==
  {k \in DOMAIN effects :
     /\ i <= Len(effects[k].buffers)
     /\ \/ effects[k].buffers[i].pos = 0
        \/ effects[k].buffers[i].size = 0
        \/ effects[k].buffers[i].color = 0}

\* Panel indices for which some effect instance created buffers.
PanelIndices == UNION {DOMAIN effects[k].buffers : k \in DOMAIN effects}

\* C8: at any time at most one buffer set is live for any panel index.
C8_OneLiveSetPerPanel ==
  \A i \in PanelIndices : Cardinality(LiveSets(i)) <= 1

\* A second effect instance holds live buffers while the first one's buffers
\* for the same panel index have been released.
C8_Witness ==
  /\ Len(effects) >= 2
  /\ effects[1].buffers # <<>> /\ effects[2].buffers # <<>>
  /\ LiveSets(1) = {2}

\* Effect instances that have been torn down.
TornDown == {k \in DOMAIN effects : k # cur}

\* C9: a torn-down effect instance has its observer disconnected and each of
\* its buffers released exactly once, no buffer of any instance is ever
\* released twice, and reglRef never refers to a torn-down instance.
C9_TeardownReleasesOnce ==
  /\ \A k \in TornDown :
       /\ ~effects[k].observing
       /\ effects[k].regl = "destroyed"
       /\ \A i \in 1..Len(effects[k].buffers) :
            /\ effects[k].buffers[i].pos = 1
            /\ effects[k].buffers[i].size = 1
            /\ effects[k].buffers[i].color = 1
  /\ \A k \in DOMAIN effects : \A i \in 1..Len(effects[k].buffers) :
       /\ effects[k].buffers[i].pos <= 1
       /\ effects[k].buffers[i].size <= 1
       /\ effects[k].buffers[i].color <= 1
  /\ reglRef = cur
  /\ (cur # 0 => effects[cur].regl = "live")

\* The component is unmounted after two effect instances with buffers.
C9_Witness ==
  /\ ~mounted /\ ~effectsPending
  /\ Len(effects) = 2 /\ cur = 0 /\ reglRef = 0
  /\ Len(effects[1].buffers) = 3 /\ Len(effects[2].buffers) = 3

\* C10: render() never executes for an effect instance that has been torn
\* down: it never polls or clears a destroyed context and never draws with a
\* released buffer.
C10_NoRenderAfterTeardown ==
  lastRender.inst # 0 =>
    /\ lastRender.ctxLive
    /\ \A j \in 1..Len(lastRender.draws) : lastRender.draws[j].bufLive

----------------------------------------------------------------------------
(* Properties of the effect's triggers (under Spec and SpecGrid).          *)

\* C11: GPU buffers are released and recreated only where the panel data
\* itself changed.  With array props of stable identity, every run of the
\* effect after the first (each releases the previous buffer sets and creates
\* new ones) holds panel data different from the run before it; a resize or a
\* change of columns, cell height or gap alone starts no new run.
C11_BuffersRebuiltOnlyOnDataChange ==
  stableProps =>
    \A k \in DOMAIN effects :
      k > 1 => effects[k].prepared # effects[k - 1].prepared

\* C12: pointer-move and pointer-leave handling, the re-render that the
\* tooltip update causes included, never recomputes the prepared panels and
\* never schedules a release or re-creation of the GPU buffers or the context:
\* a step that moves the pointer leaves the count of useMemo runs, the pending
\* effect and the effect instances as they were.
C12_PointerLeavesGpuAlone ==
  [][mouse' # mouse =>
       /\ memoRuns' = memoRuns
       /\ effectsPending' = effectsPending
       /\ effects' = effects]_vars

\* C13: render triggers arriving within one frame (the render scheduled at
\* mount and the resize-observer notifications) coalesce into a single
\* execution of render for that frame: between two paints render runs at most
\* once.
C13_OneRenderPerFrame == frameRenders <= 1

----------------------------------------------------------------------------
(* Properties of the grid layout and the cell lookup (under SpecGrid and   *)
(* Spec).                                                                  *)

\* The cell of panel i (1-based) as the CSS grid lays it out: column and row
\* of the cell, its width and its top-left corner.
GridCol(i) == (i - 1) % columns
GridRow(i) == (i - 1) \div columns
GridCellW == RDiv(Num(clientWidth - (columns - 1) * cellGap), Num(columns))
GridLeft(i) == RMul(Num(GridCol(i)), RAdd(GridCellW, Num(cellGap)))
GridTop(i) == Num(GridRow(i) * (cellHeight + cellGap))

\* The pointer is strictly inside the cell of panel i.
StrictlyInside(i) ==
  /\ mounted /\ mouse # NoVal
  /\ RLt(GridLeft(i), mouse[1]) /\ RLt(mouse[1], RAdd(GridLeft(i), GridCellW))
  /\ RLt(GridTop(i), mouse[2]) /\ RLt(mouse[2], RAdd(GridTop(i), Num(cellHeight)))

\* The pointer is inside or on the border of the cell of panel i.
InsideOrOnBorder(i) ==
  /\ mounted /\ mouse # NoVal
  /\ RLe(GridLeft(i), mouse[1]) /\ RLe(mouse[1], RAdd(GridLeft(i), GridCellW))
  /\ RLe(GridTop(i), mouse[2]) /\ RLe(mouse[2], RAdd(GridTop(i), Num(cellHeight)))

\* How many draw calls the last render issued for panel i.
DrawCount(i) ==
  Cardinality({j \in 1..Len(lastRender.draws) : lastRender.draws[j].panel = i})

\* C14: every render issues exactly one draw call for each panel with at
\* least one point and none for a panel without points; a panel without
\* points keeps its cell (the panels after it are drawn at the cell of their
\* own index) and a pointer over its cell never produces a tooltip.
C14_OneDrawPerNonEmptyPanel ==
  /\ lastRender.inst # 0 =>
       LET e == effects[lastRender.inst]
       IN  /\ \A i \in 1..Len(e.prepared) :
                DrawCount(i) = IF e.prepared[i].count > 0 THEN 1 ELSE 0
           /\ \A j \in 1..Len(lastRender.draws) :
                LET d == lastRender.draws[j]
                    col == (d.panel - 1) % e.columns
                    row == (d.panel - 1) \div e.columns
                IN  /\ d.viewport.x =
                         RFloor(RMul(Num(col), RAdd(lastRender.cellW, Num(e.cellGap))))[1]
                    /\ lastRender.cssHeight - (d.viewport.y + d.viewport.height) =
                         row * (e.cellHeight + e.cellGap)
  /\ \A i \in DOMAIN charts :
       StrictlyInside(i) /\ charts[i].points = <<>> => ~tooltip.visible

\* C14 witness: a render of three panels, the middle one without points, has
\* drawn the other two, and the pointer is inside the empty panel's cell.
C14_Witness ==
  /\ lastRender.inst # 0
  /\ Len(effects[lastRender.inst].prepared) = 3
  /\ effects[lastRender.inst].prepared[2].count = 0
  /\ Len(lastRender.draws) = 2
  /\ Len(charts) = 3 /\ charts[2].points = <<>>
  /\ StrictlyInside(2)

\* Two rectangles of the drawing surface share no pixel.
Disjoint(a, b) ==
  \/ a.x + a.width <= b.x \/ b.x + b.width <= a.x
  \/ a.y + a.height <= b.y \/ b.y + b.height <= a.y

\* |a - b| < 1
WithinOne(a, b) == RLt(RAbs(RSub(a, b)), Num(1))

\* C15: every draw call uses a viewport and a scissor box equal to each other
\* and to the panel's cell rectangle (on the drawing surface, whose pixels
\* are 1/dpr CSS pixels, and to the pixel), and within one render the
\* rectangles of two distinct panels do not overlap.
C15_ViewportIsCellRect ==
  lastRender.inst # 0 =>
    LET e == effects[lastRender.inst]
        pitch == RAdd(lastRender.cellW, Num(e.cellGap))
    IN  /\ \A j \in 1..Len(lastRender.draws) :
             LET d == lastRender.draws[j]
                 col == (d.panel - 1) % e.columns
                 row == (d.panel - 1) \div e.columns
                 top == canvasSize[2] - (d.viewport.y + d.viewport.height)
             IN  /\ d.viewport = d.scissor
                 /\ WithinOne(Rat(d.viewport.x, dpr), RMul(Num(col), pitch))
                 /\ WithinOne(Rat(d.viewport.width, dpr), lastRender.cellW)
                 /\ Rat(top, dpr) = Num(row * (e.cellHeight + e.cellGap))
                 /\ Rat(d.viewport.height, dpr) = Num(e.cellHeight)
        /\ \A j, k \in 1..Len(lastRender.draws) :
             j # k => Disjoint(lastRender.draws[j].viewport, lastRender.draws[k].viewport)

\* C16: in every render, whatever height the element is observed to have, the
\* canvas height used is at least the required total height, and for every
\* panel index i the viewport lies vertically inside the canvas:
\* viewportY = canvasHeight - (cellTopY + cellH) has 0 <= viewportY and
\* viewportY + cellH <= canvasHeight, so the clamp leaves it where it is.
C16_ViewportInsideCanvas ==
  lastRender.inst # 0 =>
    LET e == effects[lastRender.inst]
        canvasHeight == lastRender.cssHeight
    IN  /\ canvasHeight >= lastRender.required
        /\ lastRender.required >=
             Rows(Len(e.buffers), e.columns) * e.cellHeight
        /\ \A i \in 1..Len(e.buffers) :
             LET cellTopY == ((i - 1) \div e.columns) * (e.cellHeight + e.cellGap)
                 viewportY == canvasHeight - (cellTopY + e.cellHeight)
             IN  /\ 0 <= viewportY
                 /\ viewportY + e.cellHeight <= canvasHeight
                 /\ Viewport(i, lastRender.cssWidth, canvasHeight, e.columns,
                             e.cellHeight, e.cellGap).y = viewportY

\* C16 witness: a render of three panels in two rows found the element taller
\* than the grid requires.
C16_Witness ==
  /\ lastRender.inst # 0
  /\ Len(effects[lastRender.inst].buffers) = 3
  /\ effects[lastRender.inst].columns = 2
  /\ lastRender.cssHeight > lastRender.required

\* ceil(n / cols): the least number of rows of cols cells that hold n panels.
CeilDiv(n, cols) == CHOOSE r \in 0..n : r * cols >= n /\ \A q \in 0..n : q * cols >= n => r <= q

\* The layout of the last render against the three formulas, the row gaps
\* counted by gaps(rows).
LayoutMatches(gaps(_)) ==
  lastRender.inst # 0 =>
    LET e == effects[lastRender.inst]
        n == Len(e.prepared)
        rows == CeilDiv(n, e.columns)
        W == lastRender.cssWidth
        totalHeight == rows * e.cellHeight + gaps(rows) * e.cellGap + 40
    IN  /\ Rows(n, e.columns) = rows
        /\ lastRender.cellW = RDiv(Num(W - (e.columns - 1) * e.cellGap), Num(e.columns))
        /\ lastRender.required = totalHeight
        /\ e.heightPx = totalHeight

GapsAsStated(rows) == rows - 1
GapsAsComputed(rows) == IF rows >= 1 THEN rows - 1 ELSE 0

\* C17 (as stated): for every panel count n and column count cols >= 1,
\* rows = ceil(n/cols), cellW = (W - (cols-1)*g)/cols and
\* totalHeight = rows*cellH + (rows-1)*g + marginPx, the same value in the
\* component body (heightPx) and inside render (requiredHeight).
C17_LayoutAsStated == LayoutMatches(GapsAsStated)

\* C17 (amended): the same, with totalHeight = rows*cellH + max(0, rows-1)*g +
\* marginPx: a grid without panels has no row and no gap, and is marginPx high.
C17_LayoutAsComputed == LayoutMatches(GapsAsComputed)

\* C17 witness: a render of a grid without panels and with a gap between rows.
C17_Witness ==
  /\ lastRender.inst # 0
  /\ effects[lastRender.inst].prepared = <<>>
  /\ effects[lastRender.inst].cellGap > 0
  /\ lastRender.required = 40

\* The points of every panel an effect instance holds, panel by panel.
PointCounts(e) == [i \in 1..Len(e.prepared) |-> e.prepared[i].count]

\* C18: the total height strictly increases with the row count (cellH > 0,
\* g >= 0) and depends only on panel count, column count, cell height and
\* gap.  Of any two effect instances with the same cell height and gap the one
\* with more rows has the larger heightPx, and two with the same panel count,
\* columns, cell height and gap have the same rows and the same heightPx,
\* whatever points their panels hold.
C18_HeightFromLayoutOnly ==
  \A j, k \in DOMAIN effects :
    LET a == effects[j]
        b == effects[k]
        rowsA == CeilDiv(Len(a.prepared), a.columns)
        rowsB == CeilDiv(Len(b.prepared), b.columns)
        sameCells == a.cellHeight = b.cellHeight /\ a.cellGap = b.cellGap
    IN  /\ sameCells /\ rowsA < rowsB => a.heightPx < b.heightPx
        /\ sameCells /\ Len(a.prepared) = Len(b.prepared) /\ a.columns = b.columns
             => rowsA = rowsB /\ a.heightPx = b.heightPx

\* C18 witness: two effect instances over three panels in one column whose
\* panels hold different numbers of points.
C18_Witness ==
  /\ Len(effects) = 2
  /\ Len(effects[1].prepared) = 3 /\ Len(effects[2].prepared) = 3
  /\ effects[1].columns = 1 /\ effects[2].columns = 1
  /\ PointCounts(effects[1]) # PointCounts(effects[2])

\* C19: panel index i (0-based) is laid out at col = i % cols,
\* row = floor(i / cols), with its top-left pixel at
\* (col*(cellW+g), row*(cellH+g)) (render takes the floor of the abscissa), and
\* a pointer strictly inside that cell is resolved by the hit-tester to
\* chartIndex = row*cols + col = i; in the 6-column grid with cellW = 200,
\* cellH = 280, gap = 20 a pointer in cell (col 2, row 1) resolves to 8.
C19_CellIndexRoundTrip ==
  /\ lastRender.inst # 0 =>
       LET e == effects[lastRender.inst]
       IN  \A j \in 1..Len(lastRender.draws) :
             LET d == lastRender.draws[j]
                 i == d.panel - 1
                 left == RMul(Num(i % e.columns), RAdd(lastRender.cellW, Num(e.cellGap)))
                 top == (i \div e.columns) * (e.cellHeight + e.cellGap)
             IN  /\ RLe(Num(d.viewport.x), left)
                 /\ RLt(left, Num(d.viewport.x + 1))
                 /\ lastRender.cssHeight - (d.viewport.y + d.viewport.height) = top
  /\ \A p \in DOMAIN charts :
       StrictlyInside(p) =>
         /\ hit.inCell
         /\ hit.chartIndex = p - 1
         /\ hit.chartIndex = GridRow(p) * columns + GridCol(p)
  /\ ( /\ mounted /\ mouse # NoVal
       /\ columns = 6 /\ GridCellW = Num(200) /\ cellHeight = 280 /\ cellGap = 20
       /\ RLt(Num(440), mouse[1]) /\ RLt(mouse[1], Num(640))
       /\ RLt(Num(300), mouse[2]) /\ RLt(mouse[2], Num(580)) )
     => hit.chartIndex = 8 /\ hit.inCell

\* C19 witness: the pointer is strictly inside cell (col 2, row 1) of the
\* 6-column grid of nine panels, after a render of that grid.
C19_Witness ==
  /\ RenderCurrent
  /\ columns = 6 /\ clientWidth = 1300 /\ Len(charts) = 9
  /\ Len(lastRender.draws) = 9
  /\ StrictlyInside(9)
  /\ hit.chartIndex = 8

\* The pointer is inside or on the border of no panel's cell: it is in a gap,
\* in a grid position without a panel, or below the grid.
OutsideEveryCell ==
  /\ mounted /\ mouse # NoVal
  /\ \A p \in DOMAIN charts : ~InsideOrOnBorder(p)

\* C20: a pointer in the gap between cells, in a grid position whose index is
\* at or beyond the panel count, or outside every cell is reported as no hit
\* (the tooltip is cleared), and the handler reads a panel only at an index
\* below the panel count.
C20_NoHitOutsideCells ==
  /\ OutsideEveryCell => tooltip = NoTooltip /\ ~hit.inCell
  /\ hit.inCell => hit.chartIndex >= 0 /\ hit.chartIndex < Len(charts)
  /\ tooltip.visible => hit.inCell

\* C20 witness: in a two-column grid with a gap the pointer is between the two
\* columns, level with the first row, and the tooltip is null.
C20_Witness ==
  /\ OutsideEveryCell
  /\ columns = 2 /\ cellGap > 0 /\ Len(charts) = 3
  /\ RLt(GridCellW, mouse[1]) /\ RLt(mouse[1], RAdd(GridCellW, Num(cellGap)))
  /\ RLe(mouse[2], Num(cellHeight))
  /\ tooltip = NoTooltip

----------------------------------------------------------------------------
(* Properties of the tolerance window, the snapshot and the overlays.      *)

\* Cell-local position of the pointer in the cell the handler resolved, and
\* the cursor's data coordinates there.
HitLocalX == RSub(mouse[1], RMul(Num(CellOf(mouse[1], mouse[2]).col),
                                 RAdd(CellOf(mouse[1], mouse[2]).cellW, Num(cellGap))))
HitLocalY == RSub(mouse[2], Num(CellOf(mouse[1], mouse[2]).row * (cellHeight + cellGap)))
HitCursor ==
  Cursor(prepared[hit.chartIndex + 1], HitLocalX, HitLocalY,
         CellOf(mouse[1], mouse[2]).cellW, cellHeight)

\* The tooltip lists exactly the points of sequence pts, in that order.
TooltipIs(pts) ==
  IF pts = <<>> THEN tooltip = NoTooltip
  ELSE /\ tooltip.visible
       /\ Len(tooltip.data) = Len(pts)
       /\ \A j \in 1..Len(pts) :
            tooltip.data[j].time = pts[j].x /\ tooltip.data[j].price = pts[j].y

\* C21: when the pointer is inside panel i's cell the tooltip contains exactly
\* those points of panel i whose time and price both lie within 2% of the
\* respective axis's padded range of the cursor's data coordinates, in
\* original point order; when no point qualifies the tooltip is null.
C21_ToleranceWindow ==
  (mounted /\ mouse # NoVal /\ hit.inCell) =>
    LET chart == charts[hit.chartIndex + 1]
    IN  IF chart.points = <<>> THEN tooltip = NoTooltip
        ELSE LET r == Ranges(chart)
                 tolTime == RMul(RSub(r.xmax, r.xmin), Rat(2, 100))
                 tolPrice == RMul(RSub(r.ymax, r.ymin), Rat(2, 100))
                 InWindow(pt) ==
                   /\ RLt(RAbs(RSub(pt.x, HitCursor.time)), tolTime)
                   /\ RLt(RAbs(RSub(pt.y, HitCursor.price)), tolPrice)
             IN  TooltipIs(SelectSeq(chart.points, InWindow))

\* C22: at every pointer event, after any sequence of data changes, the
\* prepared panel whose bounds the hit-tester uses for panel index i was
\* derived from the panel snapshot whose points it filters: the prepared list
\* and the panel list have equal length, prepared[i].id = charts[i].id and the
\* bounds are those the normaliser gives for charts[i].
C22_BoundsOfSameSnapshot ==
  mounted =>
    /\ Len(prepared) = Len(charts)
    /\ \A i \in DOMAIN charts :
         /\ prepared[i].id = charts[i].id
         /\ prepared[i] = PrepareOne(charts[i])

\* C22 witness: the parent has replaced one panel by three, and the pointer
\* is then resolved to the second panel.
C22_Witness ==
  /\ mounted /\ memoRuns >= 2
  /\ Len(effects) >= 1 /\ Len(effects[1].prepared) = 1
  /\ Len(charts) = 3
  /\ hit.inCell /\ hit.chartIndex = 1

\* Where the GPU layer draws a vertex of clip-space position clip, as
\* fractions of the cell's width and height from its top-left corner.
DrawnAt(clip) ==
  <<RDiv(RAdd(clip[1], Num(1)), Num(2)), RDiv(RSub(Num(1), clip[2]), Num(2))>>

\* C23: a marker is positioned with the same normalisation bounds as the GPU
\* layer: a drawn marker whose (timestamp, price) equals a data point of its
\* panel is placed at the same panel-relative position (fraction of the cell's
\* width and height from the top-left) at which the GPU layer draws the point.
C23_MarkerOnItsPoint ==
  mounted =>
    \A i \in DOMAIN charts : \A k \in 1..Len(charts[i].points) :
      LET pt == charts[i].points[k]
          m == Marker(charts[i], [timestamp |-> pt.x, price |-> pt.y])
      IN  m # NoMarker => m = DrawnAt(prepared[i].pos[k])

\* C24: if construction fails partway (the context cannot be created, or
\* creating the buffers of some panel throws after earlier buffers were
\* created), every GPU resource already acquired in that construction is
\* released and no rendering is attempted with it.
C24_FailedConstructionReleased ==
  \A k \in DOMAIN effects :
    ~effects[k].built =>
      /\ effects[k].regl = "destroyed"
      /\ \A i \in 1..Len(effects[k].buffers) : ~BufLive(effects[k].buffers[i])
      /\ lastRender.inst # k

----------------------------------------------------------------------------
(* C25: per-minute aggregation.                                            *)

RECURSIVE GroupOnce(_, _, _)
\* Single-pass grouping: minute |-> count, total size and total value of the
\* trades of that minute, each trade added to the one bucket of its minute.
GroupOnce(trades, i, acc) ==
  IF i > Len(trades) THEN acc
  ELSE LET b == (trades[i].timestamp \div 60) * 60
           old == IF b \in DOMAIN acc THEN acc[b]
                  ELSE [count |-> 0, size |-> Num(0), value |-> Num(0)]
           new == [count |-> old.count + 1,
                   size |-> RAdd(old.size, trades[i].size),
                   value |-> RAdd(old.value, RMul(trades[i].price, trades[i].size))]
       IN  GroupOnce(trades, i + 1,
                     [m \in DOMAIN acc \cup {b} |-> IF m = b THEN new ELSE acc[m]])

Grouped(trades) == GroupOnce(trades, 1, <<>>)

SidePoints(trades, color) ==
  LET g == Grouped(trades)
  IN  {[x |-> Num(m), y |-> Quot(g[m].value, g[m].size), size |-> g[m].size, color |-> color] :
         m \in DOMAIN g}

\* C25: the aggregation that filters the full trade list again for every
\* minute gives what a single-pass grouping gives: one entry per minute
\* floor(timestamp/60)*60 that has a trade, with the count and the summed size
\* of that minute's trades and sum(price*size)/sum(size) as average price, for
\* the heatmap's aggregation over all markets and, per market and side, for
\* the minute points chart.
C25_RefilterEqualsSinglePass ==
  /\ minuteHeatmap.rendered =>
       LET g == Grouped(AllTrades(markets, 1))
           md == minuteHeatmap.minuteData
       IN  /\ Len(md) = Cardinality(DOMAIN g)
           /\ {md[k].minute : k \in DOMAIN md} = DOMAIN g
           /\ \A k \in DOMAIN md :
                /\ md[k].tradesCount = g[md[k].minute].count
                /\ md[k].totalSize = g[md[k].minute].size
                /\ md[k].avgPrice = Quot(g[md[k].minute].value, g[md[k].minute].size)
  /\ minutePoints.rendered =>
       /\ Len(minutePoints.aggregatedCharts) = Len(markets)
       /\ \A k \in DOMAIN markets :
            LET pts == minutePoints.aggregatedCharts[k].points
                ref == SidePoints(markets[k].up, Red) \cup SidePoints(markets[k].down, Green)
            IN  /\ {pts[j] : j \in DOMAIN pts} = ref
                /\ Len(pts) = Cardinality(ref)

\* Both aggregations have run over trades of several minutes, one of which
\* has two trades of different prices, on the same side of one market.
C25_Witness ==
  /\ minuteHeatmap.rendered /\ minutePoints.rendered
  /\ Len(minuteHeatmap.minuteData) >= 2
  /\ \E k \in DOMAIN minuteHeatmap.minuteData :
       /\ minuteHeatmap.minuteData[k].tradesCount >= 2
       /\ minuteHeatmap.minuteData[k].avgPrice \notin {t[1] : t \in TradeKinds}
  /\ \E k \in DOMAIN markets :
       /\ Len(markets[k].up) = 2
       /\ Len(minutePoints.aggregatedCharts[k].points) = 1
       /\ minutePoints.aggregatedCharts[k].points[1].y \notin {t[1] : t \in TradeKinds}

\* C26: at every device pixel ratio, the rectangle of the drawing surface in
\* which panel i is drawn, divided by dpr and counted from the top, is the
\* CSS-pixel cell that the hit-tester attributes to panel i: it has the cell's
\* corner and size, and the hit-tester resolves its centre to panel i.
C26_DrawnRectIsHitCell ==
  RenderCurrent =>
    \A j \in 1..Len(lastRender.draws) :
      LET d == lastRender.draws[j]
          left == Rat(d.viewport.x, dpr)
          top == Rat(canvasSize[2] - (d.viewport.y + d.viewport.height), dpr)
          width == Rat(d.viewport.width, dpr)
          height == Rat(d.viewport.height, dpr)
          cx == RAdd(left, RDiv(width, Num(2)))
          cy == RAdd(top, RDiv(height, Num(2)))
      IN  /\ WithinOne(left, GridLeft(d.panel))
          /\ top = GridTop(d.panel)
          /\ WithinOne(width, GridCellW)
          /\ height = Num(cellHeight)
          /\ Lookup(cx, cy) = [chartIndex |-> d.panel - 1, inCell |-> TRUE]

\* C27: for every pointer position on the element, its right and bottom edge
\* included and with any gap, the column the hit-tester computes is less than
\* the column count, and whenever it resolves a panel the pointer lies inside
\* or on the border of the cell the grid assigns to that panel.
C27_ColumnBelowCount ==
  (mounted /\ mouse # NoVal) =>
    /\ CellOf(mouse[1], mouse[2]).col < columns
    /\ hit.inCell => InsideOrOnBorder(hit.chartIndex + 1)

----------------------------------------------------------------------------
(* C28, C29: the heatmap bucketings.                                       *)

RECURSIVE SumCounts(_, _)
\* sizeBuckets.reduce((sum, b) => sum + b.count, 0)
SumCounts(buckets, i) ==
  IF i > Len(buckets) THEN 0 ELSE buckets[i].count + SumCounts(buckets, i + 1)

\* The points of all panels that have a positive size.
SizedPoints == SelectSeq(PointsOf(toCharts(markets), 1), HasSize)

\* C28: the size histogram counts every point with a positive size in exactly
\* one bucket [5k, 5k+5): each such point's bucket is listed, and the bucket
\* counts add up to the number of points with a positive size, also when the
\* largest size is a multiple of 5.
C28_EverySizeCounted ==
  sizeHeatmap.rendered =>
    /\ SumCounts(sizeHeatmap.sizeBuckets, 1) = Len(SizedPoints)
    /\ \A k \in DOMAIN SizedPoints :
         \E b \in DOMAIN sizeHeatmap.sizeBuckets :
           /\ RLe(Num(sizeHeatmap.sizeBuckets[b].minSize), SizedPoints[k].size)
           /\ RLt(SizedPoints[k].size, Num(sizeHeatmap.sizeBuckets[b].maxSize))

\* The records of a list that count a trade (the others add nothing to a sum).
NonEmpty(list) == SelectSeq(list, LAMBDA r : r.tradesCount # 0)

\* The time buckets that take in aggregated minute k of the heatmap.
BucketsOfMinute(k) ==
  LET md == minuteHeatmap.minuteData
      minTime == md[1].minute
      maxTime == md[Len(md)].minute
      size == Rat(maxTime - minTime, bucketCount)
  IN  {b \in 1..bucketCount :
         /\ RLe(RAdd(Num(minTime), RMul(Num(b - 1), size)), Num(md[k].minute))
         /\ RLt(Num(md[k].minute), RAdd(Num(minTime), RMul(Num(b), size)))}

\* C29: the minute heatmap puts every aggregated minute in exactly one of its
\* 30 time buckets, so the trade counts and the total sizes of the buckets add
\* up to those of all aggregated minutes, the latest minute included and also
\* when all trades fall in one minute.
C29_EveryMinuteBucketed ==
  minuteHeatmap.rendered =>
    LET md == minuteHeatmap.minuteData
        tb == minuteHeatmap.timeBuckets
    IN  /\ Len(tb) = bucketCount
        /\ \A k \in DOMAIN md : Cardinality(BucketsOfMinute(k)) = 1
        /\ SumTradesCount(NonEmpty(tb), 1) = SumTradesCount(md, 1)
        /\ SumTotalSize(NonEmpty(tb), 1) = SumTotalSize(md, 1)

----------------------------------------------------------------------------
(* C30: the render / resize-observer loop.                                 *)

\* The largest height any render can ask for: the height of the current
\* layout and the height of the layout each effect instance has captured.
LargestHeight ==
  LET hs == {HeightPx(Len(charts), columns, cellHeight, cellGap)} \cup
            {effects[k].heightPx : k \in DOMAIN effects}
  IN  CHOOSE h \in hs : \A g \in hs : g <= h

\* Instance k is the one that rendered last, and the element has the width
\* and the height that render left.
Settled(k) ==
  /\ mounted
  /\ lastRender.inst = k
  /\ lastRender.cssWidth = ClientWidth
  /\ lastRender.cssHeight = styleHeight

\* C30: the render / resize loop reaches a fixed point.  A render sets the
\* element's height to max(observed, required), which never exceeds the
\* largest height of a layout in use, so the height cannot keep growing; and
\* a render that the resize observer triggers when nothing changed since the
\* same instance's previous render computes the same width and height and
\* queues no further notification.
C30_ResizeLoopSettles ==
  [][ /\ mounted' => styleHeight' <= LargestHeight'
      /\ \A k \in DOMAIN effects :
           (Settled(k) /\ RoFire(k)) =>
             /\ styleHeight' = styleHeight
             /\ canvasSize' = canvasSize
             /\ lastRender'.cssWidth = lastRender.cssWidth
             /\ lastRender'.cssHeight = lastRender.cssHeight
             /\ \A j \in DOMAIN effects' : ~effects'[j].roPending
    ]_vars

\* A render raised the element above the height React gave it, the observer's
\* render that followed kept that height, and no notification is left.
C30_Witness ==
  /\ mounted /\ ~effectsPending
  /\ cur # 0
  /\ Settled(cur)
  /\ styleHeight > HeightPx(Len(charts), columns, cellHeight, cellGap)
  /\ \A j \in DOMAIN effects : ~effects[j].roPending /\ ~effects[j].rafPending

============================================================================
